---------------------------- MODULE Spec2Model ----------------------------
(***************************************************************************)
(* ArcadeMIDIGenerator (src/main.py): the Python encoder that turns the    *)
(* note_on messages of a MIDI file into digit columns and stacks them into *)
(* images, and the generated TypeScript decoder that finds the frames and  *)
(* their bands again by scanning colour transitions.                       *)
(*                                                                         *)
(* Columns are Python strings and are modelled as strings: Len, \o and     *)
(* SubSeq act on them character by character.  A pixel is the hex value of *)
(* the character the image literal holds at that place.                    *)
(***************************************************************************)
EXTENDS Integers, Sequences, FiniteSets, TLC

VARIABLES
    consumed,     \* the messages of msgs the encoder loop has iterated over
    image,        \* the encoder's list of columns (main.py:666)
    width_count,  \* the encoder's column counter (main.py:667)
    pc,           \* where the program is
    images_code,  \* the image literals written into the generated program
    img_queue,    \* ArcadeMIDIImageParser._img_queue
    frame_queue,  \* ArcadeMIDIImageParser._frame_queue
    col_in,       \* the arguments of a direct format_col call
    decoded,      \* what get_duration/get_velocity/get_notes returned last
    note_index,   \* the argument of a note_on call
    key_number,   \* the key number note_on derived for it
    playing_notes,\* ArcadeMIDIInstructions._playing_notes
    trace,        \* the calls of note_on, playNoteCore and pause, in order
    player        \* the locals of ArcadeMIDIImageFramePlayer.play

vars == <<consumed, image, width_count, pc, images_code, img_queue, frame_queue,
          col_in, decoded, note_index, key_number,
          playing_notes, trace, player>>

-----------------------------------------------------------------------------
(* Bounds of the model *)

\* messages of a varied stream
MaxMsgs == 4
\* messages of the long, periodic stream that are followed from each of
\* its starting points (two in three of them are note_on messages)
MaxLong == 12
\* filler columns in front of a directly placed column
MaxX == 1
\* direct calls of note_on
MaxCalls == 3

-----------------------------------------------------------------------------
(* Strings *)

None == "none"

\* JavaScript's undefined, where a row number is expected (rows are >= 0)
Undefined == -1

Min(a, b) == IF a < b THEN a ELSE b

\* Python's s * n on a string (by halving, to keep the evaluation shallow)
RECURSIVE Repeat(_, _)
Repeat(s, n) ==
    IF n <= 0 THEN ""
    ELSE LET half == Repeat(s, n \div 2)
         IN  half \o half \o (IF n % 2 = 1 THEN s ELSE "")

\* s[i], 0-based
CharAt(s, i) == SubSeq(s, i + 1, i + 1)

HexChars == <<"0", "1", "2", "3", "4", "5", "6", "7",
              "8", "9", "a", "b", "c", "d", "e", "f">>

\* the colour an image literal gives a character
HexVal == [c \in {HexChars[i] : i \in 1..16} |->
              (CHOOSE i \in 1..16 : HexChars[i] = c) - 1]

-----------------------------------------------------------------------------
(* note names *)

notes == <<"A", "A#", "B", "C", "C#", "D", "D#", "E", "F", "F#", "G", "G#">>

\* math.ceil(num / 12), Math.ceil(num / 12)
CeilDiv12(num) == -((-num) \div 12)

IntToStr(n) == ToString(n)

note_num_to_name(num) == notes[(num % 12) + 1] \o IntToStr(CeilDiv12(num))

\* "#" in name
RECURSIVE HasSharp(_)
HasSharp(name) ==
    IF Len(name) = 0 THEN FALSE
    ELSE CharAt(name, 0) = "#" \/ HasSharp(SubSeq(name, 2, Len(name)))

\* notes.indexOf(name), 0-based, -1 when the name is not in the list
IndexOfNote(name) ==
    IF \E i \in DOMAIN notes : notes[i] = name
    THEN (CHOOSE i \in DOMAIN notes : notes[i] = name) - 1
    ELSE -1

\* parseInt of one decimal digit
DigitVal(c) == (CHOOSE i \in 1..10 : HexChars[i] = c) - 1

\* key_number as get_frequency computes it from a note name (lines 228-235);
\* the frequency it returns is A4 * 2 ** ((key_number - 49) / 12)
key_number_of(note) ==
    LET octave == DigitVal(IF Len(note) = 3 THEN CharAt(note, 2)
                                            ELSE CharAt(note, 1))
        index  == IndexOfNote(SubSeq(note, 1, Len(note) - 1))
    IN  IF index < 3
        THEN index + 12 + ((octave - 1) * 12) + 1
        ELSE index + ((octave - 1) * 12) + 1

\* the first line of note_on: the key whose frequency the note gets
NoteOnKey ==
    /\ pc = "note_on"
    /\ key_number' = key_number_of(note_num_to_name(note_index - 21))
    /\ pc' = "keyed"
    /\ UNCHANGED <<consumed, image, width_count, images_code, img_queue,
                   frame_queue, col_in, decoded, note_index,
                   playing_notes, trace, player>>

-----------------------------------------------------------------------------
(* The playback driver: note_on and play_now of ArcadeMIDIInstructions *)

\* The frequency get_frequency returns is A4 * 2 ** ((key_number - 49) / 12),
\* a strictly increasing function of key_number, so two frequencies are equal
\* exactly when their key numbers are: a frequency is kept as its key number.
get_frequency(note) == key_number_of(note)

\* (mutant) the latest entry of that frequency is looked for
LastPlaying(pn, frequency) ==
    IF \E i \in DOMAIN pn : pn[i].frequency = frequency
    THEN CHOOSE i \in DOMAIN pn :
             /\ pn[i].frequency = frequency
             /\ \A j \in DOMAIN pn : j > i => pn[j].frequency # frequency
    ELSE 0

\* lines 250-255: the place of the entry the loop stops at, 0 when it runs
\* to its end
FirstPlaying(pn, frequency) ==
    IF \E i \in DOMAIN pn : pn[i].frequency = frequency
    THEN CHOOSE i \in DOMAIN pn :
             /\ pn[i].frequency = frequency
             /\ \A j \in 1..(i - 1) : pn[j].frequency # frequency
    ELSE 0

\* splice(i, 1), with i counted from 1
Splice(pn, i) == SubSeq(pn, 1, i - 1) \o SubSeq(pn, i + 1, Len(pn))

\* lines 248-258: _playing_notes after note_on(index, velocity, ...), where
\* index is the parameter note_index
note_on(pn, index, velocity) ==
    LET frequency == get_frequency(note_num_to_name(index - 21))
        i         == FirstPlaying(pn, frequency)
    IN  IF velocity = 0
        THEN (IF i = 0 THEN pn ELSE Splice(pn, i))
        ELSE Append(pn, [frequency |-> frequency, velocity |-> velocity])

\* the call playNoteCore(0, frequency, velocity, ms)
PlayNoteCore(frequency, velocity, ms) ==
    [op |-> "playNoteCore", when |-> 0, frequency |-> frequency,
     velocity |-> velocity, ms |-> ms]

\* (mutant) only the note pushed last is played
play_now_last(pn, duration) ==
    IF pn = <<>> THEN <<>>
    ELSE << PlayNoteCore(pn[Len(pn)].frequency, pn[Len(pn)].velocity,
                         duration) >>

\* lines 270-277: the calls of playNoteCore that play_now(duration) makes
play_now(pn, duration) ==
    [i \in 1..Len(pn) |->
        PlayNoteCore(pn[i].frequency, pn[i].velocity, duration)] \o <<>>

Pause(ms) == [op |-> "pause", ms |-> ms]

NoteOnEvent(index, velocity, time, now) ==
    [op |-> "note_on", note_index |-> index, velocity |-> velocity,
     time |-> time, play_now |-> now]

\* a call of note_on made by the program that owns the driver
NoteOnCall(index, velocity, time, now) ==
    /\ pc = "driver"
    /\ playing_notes' = note_on(playing_notes, index, velocity)
    /\ trace' = Append(trace, NoteOnEvent(index, velocity, time, now))
                   \o (IF time > 0 /\ now
                       THEN Append(play_now(playing_notes', time), Pause(time))
                       ELSE <<>>)
    /\ UNCHANGED <<consumed, image, width_count, pc, images_code, img_queue,
                   frame_queue, col_in, decoded, note_index, key_number,
                   player>>

-----------------------------------------------------------------------------
(* The encoder: format_hex, format_col and the loop over msgs *)

\* hex(num)[2:] for num >= 0
RECURSIVE RawHex(_)
RawHex(num) ==
    IF num < 16 THEN HexChars[num + 1]
    ELSE RawHex(num \div 16) \o HexChars[(num % 16) + 1]

format_hex(num, min_len) ==
    LET raw_hex == RawHex(num)
    IN  Repeat("0", min_len - Len(raw_hex)) \o raw_hex

\* the length of note_list, 88 + 21
NoteSlots == 109

\* (mutant) the name is taken of the slot itself, not of slot - 21
NoteFlagRaw(notelist, slot) ==
    IF \E i \in DOMAIN notelist : notelist[i] = slot
    THEN (IF HasSharp(note_num_to_name(slot)) THEN "f" ELSE "1")
    ELSE "0"

\* the flag format_col's loop leaves in slot `slot` of note_list
NoteFlag(notelist, slot) ==
    IF \E i \in DOMAIN notelist : notelist[i] = slot
    THEN (IF HasSharp(note_num_to_name(slot - 21)) THEN "f" ELSE "1")
    ELSE "0"

\* "".join(note_list[lo:hi]) (by halving, to keep the evaluation shallow)
RECURSIVE JoinFlags(_, _, _)
JoinFlags(notelist, lo, hi) ==
    IF lo >= hi THEN ""
    ELSE IF hi - lo = 1 THEN NoteFlag(notelist, lo)
    ELSE LET mid == (lo + hi) \div 2
         IN  JoinFlags(notelist, lo, mid) \o JoinFlags(notelist, mid, hi)

\* format_col(time, velocity, notes), every note of the list below NoteSlots
format_col(time, velocity, notelist) ==
    format_hex(time, 8) \o format_hex(velocity, 2)
        \o JoinFlags(notelist, 0, NoteSlots) \o "0"

\* (mutant) header-1 without its closing '0'
Header1AllOnes == Repeat("1", 8 + 2 + (88 + 21) + 1)

Header1 == Repeat("1", 8 + 2 + (88 + 21)) \o "0"
Header2 == Repeat("3", 8) \o Repeat("2", 2) \o Repeat("1", 88 + 21) \o "0"

\* the width at which width_count starts over
FrameCols == 512

\* round(msg.time * 1000), msg.time held in microseconds; Python rounds a
\* half to the even neighbour
RoundMs(us) ==
    LET q == us \div 1000
        r == us % 1000
    IN  IF r < 500 THEN q
        ELSE IF r > 500 THEN q + 1
        ELSE IF q % 2 = 0 THEN q ELSE q + 1

\* (mutant) the headers are appended before every column
WithHeadersAlways(img, wc) == img \o <<Header1, Header2>>

\* lines 673-675: the two header columns open a frame
WithHeaders(img, wc) ==
    IF wc = 0 THEN img \o <<Header1, Header2>> ELSE img

\* (mutant) the headers are not counted
CountHeadersNotCounted(wc) == wc

\* line 676
CountHeaders(wc) == IF wc = 0 THEN 2 ELSE wc

\* (mutant) the counter is compared before it is incremented
CountColumnLate(wc) == IF wc = FrameCols THEN 0 ELSE wc + 1

\* lines 680-682
CountColumn(wc) == IF wc + 1 = FrameCols THEN 0 ELSE wc + 1

IsNoteOn(msg) == msg.type = "note_on"

\* (mutant) a message that is not a note_on gets a column of its own, with
\* its delay and no note
EncodeMsgAll(msg) ==
    /\ pc = "encode"
    /\ IsNoteOn(msg) => msg.note < NoteSlots
    /\ consumed' = Append(consumed, msg)
    /\ image' = Append(WithHeaders(image, width_count),
                       IF IsNoteOn(msg)
                       THEN format_col(RoundMs(msg.time), msg.velocity,
                                       <<msg.note>>)
                       ELSE format_col(RoundMs(msg.time), 0, <<>>))
    /\ width_count' = CountColumn(CountHeaders(width_count))
    /\ UNCHANGED <<pc, images_code, img_queue, frame_queue,
                   col_in, decoded, note_index, key_number,
                   playing_notes, trace, player>>

\* one iteration of `for msg in msgs` that returns normally
EncodeMsg(msg) ==
    /\ pc = "encode"
    /\ IsNoteOn(msg) => msg.note < NoteSlots
    /\ consumed' = Append(consumed, msg)
    /\ IF IsNoteOn(msg)
       THEN /\ image' = Append(WithHeaders(image, width_count),
                               format_col(RoundMs(msg.time), msg.velocity,
                                          <<msg.note>>))
            /\ width_count' = CountColumn(CountHeaders(width_count))
       ELSE UNCHANGED <<image, width_count>>
    /\ UNCHANGED <<pc, images_code, img_queue, frame_queue,
                   col_in, decoded, note_index, key_number,
                   playing_notes, trace, player>>

\* the iteration in which note_list[note] raises IndexError: the headers of
\* a new frame are already appended, the script ends without output
EncodeRaise(msg) ==
    /\ pc = "encode"
    /\ IsNoteOn(msg) /\ msg.note >= NoteSlots
    /\ consumed' = Append(consumed, msg)
    /\ image' = WithHeaders(image, width_count)
    /\ width_count' = CountHeaders(width_count)
    /\ pc' = "IndexError"
    /\ UNCHANGED <<images_code, img_queue, frame_queue,
                   col_in, decoded, note_index, key_number,
                   playing_notes, trace, player>>

-----------------------------------------------------------------------------
(* The image composer: format_cols_to_img and the loop over 4 * 512 columns *)

\* the columns format_cols_to_img puts in one grid
SliceCols == 512
\* the grids of one image literal
ImageFrames == 4

\* The grid of text rows format_cols_to_img writes: row y holds cols[x][y]
\* for x from start_at up to start_at + 512, and there are len(cols[0])
\* rows.  The grid is kept by its columns.
format_cols_to_img(cols, start_at) ==
    [rows   |-> Len(cols[1]),
     places |-> IF start_at >= Len(cols) THEN <<>>
                ELSE SubSeq(cols, start_at + 1,
                            Min(Len(cols), start_at + SliceCols))]

\* images_code: one literal per 4 * 512 columns, each of 4 grids
ComposeLiterals(cols) ==
    LET step == SliceCols * ImageFrames
        n    == (Len(cols) + step - 1) \div step
    IN  [k \in 1..n |->
            [f \in 1..ImageFrames |->
                format_cols_to_img(cols, (k - 1) * step + (f - 1) * SliceCols)]]

\* lines 707-719: the images are composed and the program is written
ComposeImages ==
    /\ pc = "encode"
    /\ images_code' = ComposeLiterals(image)
    /\ pc' = "written"
    /\ UNCHANGED <<consumed, image, width_count, img_queue, frame_queue,
                   col_in, decoded, note_index, key_number,
                   playing_notes, trace, player>>

-----------------------------------------------------------------------------
(* The decoder: images, getPixel, recompute_frames, recompute_frame *)

\* The Image an img literal evaluates to: its rows are the literal's text
\* rows that hold characters (a grid of an empty slice has none), its width
\* that of the longest row.  `rows` is the number of rows of each grid.
EvalLiteral(lit) ==
    LET grids == SelectSeq(lit, LAMBDA g : Len(g.places) > 0)
    IN  [rows   |-> lit[1].rows,
         grids  |-> [k \in DOMAIN grids |-> grids[k].places],
         height |-> lit[1].rows * Len(grids),
         width  |-> IF Len(grids) = 0 THEN 0 ELSE Len(grids[1].places)]

Height(img) == img.height
Width(img) == img.width

\* Image.getPixel: 0 outside the image and where a row is shorter
getPixel(img, x, y) ==
    IF x < 0 \/ y < 0 \/ x >= img.width \/ y >= img.height THEN 0
    ELSE LET g == img.grids[(y \div img.rows) + 1]
         IN  IF x >= Len(g) THEN 0 ELSE HexVal[CharAt(g[x + 1], y % img.rows)]

note_color == 1
velocity_color == 2
duration_color == 3

\* The pixels of column x at rows lo - 1 .. hi + 1, read once: the scans
\* below compare each row of lo..hi with the row before and the row after.
\* Place y - lo + 2 holds row y.
ColumnPixels(img, x, lo, hi) ==
    [k \in 1..(hi - lo + 3) |-> getPixel(img, x, lo + k - 2)] \o <<>>

\* (mutant) the row is compared with the row after it
StartsColorNext(px, k) == px[k] # px[k + 1]

\* `prev_px != curr_px` at place k
StartsColor(px, k) == px[k - 1] # px[k]

\* the `else if (next_px != curr_px)` branch is taken at place k
EndsColor(px, k) == px[k - 1] = px[k] /\ px[k + 1] # px[k]

\* The value a variable holds after a loop over increasing rows that assigns
\* it the row at every row of `rows`: the last of them, or undefined when
\* there was none.
LastAssigned(rows) ==
    IF rows = {} THEN Undefined ELSE CHOOSE y \in rows : \A z \in rows : z <= y

\* new ArcadeMIDIImageFrame(img, start_y, stop_y): the constructor runs
\* recompute_frame, whose loop scans column frame_x = 1 from start_y to stop_y
recompute_frame(img, start_y, stop_y) ==
    LET px     == ColumnPixels(img, 1, start_y, stop_y)
        At(y)  == y - start_y + 2
        starts == {y \in start_y..stop_y : StartsColor(px, At(y))}
        stops  == {y \in start_y..stop_y : EndsColor(px, At(y))}
        Of(rows, color) == {y \in rows : px[At(y)] = color}
    IN  [img_ref |-> img, start_y |-> start_y, stop_y |-> stop_y,
         duration_start_y |-> LastAssigned(Of(starts, duration_color)),
         duration_stop_y  |-> LastAssigned(Of(stops, duration_color)),
         velocity_start_y |-> LastAssigned(Of(starts, velocity_color)),
         velocity_stop_y  |-> LastAssigned(Of(stops, velocity_color)),
         note_start_y     |-> LastAssigned(Of(starts, note_color)),
         note_stop_y      |-> LastAssigned(Of(stops, note_color)),
         frame_len        |-> Width(img) - 2]

\* The frames the inner loop of recompute_frames pushes for one image, in
\* the order of their rows.  It scans column 0 over all rows; a frame is
\* pushed at each row that ends colour 1, from this_frame_start: the last
\* row so far that began a colour, 0 when there was none.
ScanFrames(img) ==
    LET px     == ColumnPixels(img, 0, 0, Height(img) - 1)
        At(y)  == y + 2
        rows   == 0..(Height(img) - 1)
        starts == {y \in rows : StartsColor(px, At(y))}
        ends   == {y \in rows : EndsColor(px, At(y)) /\ px[At(y)] = 1}
        this_frame_start(y) ==
            LET before == {z \in starts : z <= y}
            IN  IF before = {} THEN 0 ELSE LastAssigned(before)
        \* the k-th end row from the top
        nth[k \in 1..Cardinality(ends)] ==
            CHOOSE y \in ends : Cardinality({z \in ends : z < y}) = k - 1
    IN  [k \in 1..Cardinality(ends) |->
            recompute_frame(img, this_frame_start(nth[k]), nth[k])]

RECURSIVE recompute_frames(_, _)
recompute_frames(queue, k) ==
    IF k > Len(queue) THEN <<>>
    ELSE ScanFrames(queue[k]) \o recompute_frames(queue, k + 1)

\* parser.queue = [...]: the setter stores the images and recomputes the frames
SetQueue ==
    /\ pc = "written"
    /\ img_queue' = [k \in DOMAIN images_code |-> EvalLiteral(images_code[k])]
    /\ frame_queue' = recompute_frames(img_queue', 1)
    /\ pc' = "parsed"
    /\ UNCHANGED <<consumed, image, width_count, images_code,
                   col_in, decoded, note_index, key_number,
                   playing_notes, trace, player>>

-----------------------------------------------------------------------------
(* The frame's readers: get_hex_val, get_duration, get_velocity, get_notes *)

numToHex(num) ==
    IF num < 10 THEN IntToStr(num)
    ELSE <<"a", "b", "c", "d", "e", "f">>[num - 10 + 1]

\* parseInt(str, 16) of a string of hex digits
RECURSIVE ParseHex(_, _)
ParseHex(str, acc) ==
    IF Len(str) = 0 THEN acc
    ELSE ParseHex(SubSeq(str, 2, Len(str)), acc * 16 + HexVal[CharAt(str, 0)])

\* y <= stop_y in a loop that began at start_y: a comparison with undefined
\* is false, so such a loop has no iteration
InLoop(y, stop_y) == y # Undefined /\ stop_y # Undefined /\ y <= stop_y

\* hex_str after the loop of get_hex_val over rows lo..hi
RECURSIVE HexStr(_, _, _, _)
HexStr(frame, x, lo, hi) ==
    IF ~InLoop(lo, hi) THEN ""
    ELSE IF lo = hi THEN numToHex(getPixel(frame.img_ref, x + 2, lo))
    ELSE LET mid == (lo + hi) \div 2
         IN  HexStr(frame, x, lo, mid) \o HexStr(frame, x, mid + 1, hi)

get_hex_val(frame, x, start_y, stop_y) ==
    LET hex_str == HexStr(frame, x, start_y, stop_y)
    IN  ParseHex(IF Len(hex_str) > 0 THEN hex_str ELSE "0", 0)

get_duration(frame, x) ==
    get_hex_val(frame, x, frame.duration_start_y, frame.duration_stop_y)

get_velocity(frame, x) ==
    get_hex_val(frame, x, frame.velocity_start_y, frame.velocity_stop_y)

\* (mutant) the row y is pushed, not fake_y
RECURSIVE NotesFromRows(_, _, _, _)
NotesFromRows(frame, x, lo, hi) ==
    IF ~InLoop(lo, hi) THEN <<>>
    ELSE IF lo = hi
    THEN (IF getPixel(frame.img_ref, x + 2, lo) # 0 THEN <<lo>> ELSE <<>>)
    ELSE LET mid == (lo + hi) \div 2
         IN  NotesFromRows(frame, x, lo, mid)
                 \o NotesFromRows(frame, x, mid + 1, hi)

\* the list get_notes builds over rows lo..hi; fake_y counts the rows from
\* _note_start_y
RECURSIVE NotesFrom(_, _, _, _)
NotesFrom(frame, x, lo, hi) ==
    IF ~InLoop(lo, hi) THEN <<>>
    ELSE IF lo = hi
    THEN (IF getPixel(frame.img_ref, x + 2, lo) # 0
          THEN <<lo - frame.note_start_y>> ELSE <<>>)
    ELSE LET mid == (lo + hi) \div 2
         IN  NotesFrom(frame, x, lo, mid) \o NotesFrom(frame, x, mid + 1, hi)

get_notes(frame, x) ==
    NotesFrom(frame, x, frame.note_start_y, frame.note_stop_y)

\* what play reads for column x of a frame (lines 579-581)
ReadColumn ==
    /\ pc = "parsed"
    /\ \E f \in DOMAIN frame_queue :
         \E x \in 0..(frame_queue[f].frame_len - 1) :
            decoded' = [frame |-> f, x |-> x,
                        duration |-> get_duration(frame_queue[f], x),
                        velocity |-> get_velocity(frame_queue[f], x),
                        notes    |-> get_notes(frame_queue[f], x)]
    /\ pc' = "read"
    /\ UNCHANGED <<consumed, image, width_count, images_code, img_queue,
                   frame_queue, col_in, note_index, key_number,
                   playing_notes, trace, player>>

-----------------------------------------------------------------------------
(* The frame players: ArcadeMIDIMultiImageFramePlayer.play and            *)
(* ArcadeMIDIImageFramePlayer.play                                         *)

\* The place the two loops (lines 624 and 578) reach from column x of frame
\* f: the next column x < frame_length, or frame Len(frame_queue) + 1
RECURSIVE SeekColumn(_, _)
SeekColumn(f, x) ==
    IF f > Len(frame_queue) THEN [frame |-> f, x |-> 0]
    ELSE IF x < frame_queue[f].frame_len THEN [frame |-> f, x |-> x]
    ELSE SeekColumn(f + 1, 0)

\* where the loops stand
PlayAt ==
    IF pc = "parsed" THEN SeekColumn(1, 0)
    ELSE SeekColumn(player.frame, player.x)

\* lines 579-581: the column is read
PlayColumn ==
    /\ pc \in {"parsed", "play"}
    /\ PlayAt.frame <= Len(frame_queue)
    /\ LET frame == frame_queue[PlayAt.frame]
           x     == PlayAt.x
       IN  player' = [frame          |-> PlayAt.frame,
                      x              |-> x,
                      frame_time     |-> get_duration(frame, x),
                      frame_velocity |-> get_velocity(frame, x),
                      frame_notes    |-> get_notes(frame, x),
                      i              |-> 0]
    /\ pc' = "notes"
    /\ UNCHANGED <<consumed, image, width_count, images_code, img_queue,
                   frame_queue, col_in, decoded, note_index, key_number,
                   playing_notes, trace>>

\* lines 584-586: one call note_on(note, frame_velocity, 0, false)
PlayNoteOn ==
    /\ pc = "notes"
    /\ player.i < Len(player.frame_notes)
    /\ LET note == player.frame_notes[player.i + 1]
       IN  /\ playing_notes' =
                 note_on(playing_notes, note, player.frame_velocity)
           /\ trace' = Append(trace, NoteOnEvent(note, player.frame_velocity,
                                                 0, FALSE))
    /\ player' = [player EXCEPT !.i = @ + 1]
    /\ UNCHANGED <<consumed, image, width_count, pc, images_code, img_queue,
                   frame_queue, col_in, decoded, note_index, key_number>>

\* line 587: play_now(frame_time)
PlayNow ==
    /\ pc = "notes"
    /\ player.i = Len(player.frame_notes)
    /\ trace' = trace \o play_now(playing_notes, player.frame_time)
    /\ pc' = "pause"
    /\ UNCHANGED <<consumed, image, width_count, images_code, img_queue,
                   frame_queue, col_in, decoded, note_index, key_number,
                   playing_notes, player>>

\* line 588 and the x++ of line 578: pause(frame_time)
PlayPause ==
    /\ pc = "pause"
    /\ trace' = Append(trace, Pause(player.frame_time))
    /\ player' = [player EXCEPT !.x = @ + 1]
    /\ pc' = "play"
    /\ UNCHANGED <<consumed, image, width_count, images_code, img_queue,
                   frame_queue, col_in, decoded, note_index, key_number,
                   playing_notes>>

\* the loop of line 624 is over: play returns
PlayEnd ==
    /\ pc \in {"parsed", "play"}
    /\ PlayAt.frame > Len(frame_queue)
    /\ pc' = "played"
    /\ UNCHANGED <<consumed, image, width_count, images_code, img_queue,
                   frame_queue, col_in, decoded, note_index, key_number,
                   playing_notes, trace, player>>

-----------------------------------------------------------------------------
(* The program run on a MIDI file *)

NoteOn(note, velocity, us) ==
    [type |-> "note_on", note |-> note, velocity |-> velocity, time |-> us]

\* a message that is not a note_on (it has no note and no velocity)
Other(type, us) == [type |-> type, time |-> us]

\* the messages a varied stream is made of
Msgs ==
    { NoteOn(60, 80, 0), NoteOn(64, 80, 0),
      NoteOn(60, 0, 500000), NoteOn(64, 0, 0),
      NoteOn(61, 100, 1500),
      NoteOn(109, 80, 0),
      Other("set_tempo", 2500) }

Init ==
    /\ consumed = <<>>
    /\ image = <<>>
    /\ width_count = 0
    /\ pc = "encode"
    /\ images_code = <<>>
    /\ img_queue = <<>>
    /\ frame_queue = <<>>
    /\ col_in = None
    /\ decoded = None
    /\ note_index = None
    /\ key_number = None
    /\ playing_notes = <<>>
    /\ trace = <<>>
    /\ player = None

Next ==
    \/ Len(consumed) < MaxMsgs /\ \E msg \in Msgs : EncodeMsg(msg)
    \/ Len(consumed) < MaxMsgs /\ \E msg \in Msgs : EncodeRaise(msg)
    \/ ComposeImages
    \/ SetQueue
    \/ ReadColumn

Spec == Init /\ [][Next]_vars

-----------------------------------------------------------------------------
(* The program run on a long MIDI file, up to the parsing of its frames *)

\* the period of the long stream
LongPattern ==
    << NoteOn(60, 80, 0), Other("set_tempo", 2500), NoteOn(61, 100, 1500) >>

\* the message that follows n messages of the long stream
LongMsg(n) == LongPattern[(n % Len(LongPattern)) + 1]

\* the loop of lines 666-682 run over the messages lo..hi of the long stream
\* from width_count = wc: the columns it appends and the count it leaves
RECURSIVE EncodeRun(_, _, _)
EncodeRun(lo, hi, wc) ==
    IF lo > hi THEN [image |-> <<>>, width_count |-> wc]
    ELSE IF lo = hi
    THEN LET msg == LongMsg(lo)
         IN  IF IsNoteOn(msg)
             THEN [image |-> Append(WithHeaders(<<>>, wc),
                                    format_col(RoundMs(msg.time), msg.velocity,
                                               <<msg.note>>)),
                   width_count |-> CountColumn(CountHeaders(wc))]
             ELSE [image |-> <<>>, width_count |-> wc]
    ELSE LET mid   == (lo + hi) \div 2
             left  == EncodeRun(lo, mid, wc)
             right == EncodeRun(mid + 1, hi, left.width_count)
         IN  [image |-> left.image \o right.image,
              width_count |-> right.width_count]

\* the numbers of messages already consumed when the observation starts:
\* shortly before the 1st .. 5th frame is full
LongStarts == {0, 760, 1525, 2290, 3055}

InitLong ==
    /\ \E n \in LongStarts :
          LET run == EncodeRun(0, n - 1, 0)
          IN  /\ consumed = [i \in 1..n |-> LongMsg(i - 1)]
              /\ image = run.image
              /\ width_count = run.width_count
    /\ pc = "encode"
    /\ images_code = <<>>
    /\ img_queue = <<>>
    /\ frame_queue = <<>>
    /\ col_in = None
    /\ decoded = None
    /\ note_index = None
    /\ key_number = None
    /\ playing_notes = <<>>
    /\ trace = <<>>
    /\ player = None

NextLong ==
    \/ /\ \E n \in LongStarts :
             n <= Len(consumed) /\ Len(consumed) < n + MaxLong
       /\ EncodeMsg(LongMsg(Len(consumed)))
    \/ ComposeImages
    \/ SetQueue

SpecLong == InitLong /\ [][NextLong]_vars

\* The long stream with, at any place, a note for which note_list has no
\* slot: format_col raises IndexError and the script ends
NextLongRaise ==
    \/ /\ \E n \in LongStarts :
             n <= Len(consumed) /\ Len(consumed) < n + MaxLong
       /\ EncodeMsg(LongMsg(Len(consumed)))
    \/ /\ \E n \in LongStarts :
             n <= Len(consumed) /\ Len(consumed) < n + MaxLong
       /\ EncodeRaise(NoteOn(109, 80, 0))
    \/ ComposeImages
    \/ SetQueue

SpecLongRaise == InitLong /\ [][NextLongRaise]_vars

-----------------------------------------------------------------------------
(* format_col called on its own, its column placed in a frame and read back *)

\* argument values of format_col
ColTimes == {0, 1, 500, 65536, 2147483647}
ColVelocities == {0, 80, 127, 255, 256}
ColNotes ==
    { <<>>, <<0>>, <<87>>, <<39, 43>>, <<43, 39>>, <<22>>, <<21, 22, 108>>,
      <<1, 4, 6, 9, 11, 13, 60, 61, 62, 63>> }

\* the column of a silent message, in front of the placed column
FillerCol == format_col(0, 0, <<>>)

InitCol ==
    /\ Init!1 /\ Init!2 /\ Init!3
    /\ pc = "call"
    /\ Init!5 /\ Init!6 /\ Init!7
    /\ col_in \in [time : ColTimes, velocity : ColVelocities, notes : ColNotes]
    /\ Init!9 /\ Init!10 /\ Init!11
    /\ Init!12 /\ Init!13 /\ Init!14

\* the column is appended as the encoder loop appends it, after the headers
\* and x earlier columns
PlaceColumn ==
    /\ pc = "call"
    /\ \E x \in 0..MaxX :
         /\ image' = <<Header1, Header2>>
                        \o [k \in 1..x |-> FillerCol]
                        \o <<format_col(col_in.time, col_in.velocity,
                                        col_in.notes)>>
         /\ width_count' = x + 3
    /\ pc' = "encode"
    /\ UNCHANGED <<consumed, images_code, img_queue, frame_queue,
                   col_in, decoded, note_index, key_number,
                   playing_notes, trace, player>>

NextCol ==
    \/ PlaceColumn
    \/ ComposeImages
    \/ SetQueue
    \/ ReadColumn

SpecCol == InitCol /\ [][NextCol]_vars

-----------------------------------------------------------------------------
(* note_on called on its own *)

InitKey ==
    /\ Init!1 /\ Init!2 /\ Init!3
    /\ pc = "note_on"
    /\ Init!5 /\ Init!6 /\ Init!7 /\ Init!8 /\ Init!9
    /\ note_index \in 21..108
    /\ Init!11
    /\ Init!12 /\ Init!13 /\ Init!14

NextKey == NoteOnKey

SpecKey == InitKey /\ [][NextKey]_vars

-----------------------------------------------------------------------------
(* The decoder given images that no encoder run produced *)

\* a marker column with d rows of colour 3, v of colour 2, n of colour 1
MarkerColumn(d, v, n) ==
    Repeat("3", d) \o Repeat("2", v) \o Repeat("1", n)
        \o Repeat("0", 120 - d - v - n)

HandImages ==
    { <<Header1, MarkerColumn(d, v, n),
        format_col(500, 80, <<60>>), format_col(0, 100, <<61, 64>>)>> :
      d \in {0, 1, 2, 8}, v \in {0, 1, 2}, n \in {0, 1, 109} }

InitDec ==
    /\ Init!1 /\ Init!2 /\ Init!3
    /\ pc = "written"
    /\ images_code \in {ComposeLiterals(cols) : cols \in HandImages}
    /\ Init!6 /\ Init!7 /\ Init!8 /\ Init!9 /\ Init!10 /\ Init!11
    /\ Init!12 /\ Init!13 /\ Init!14

NextDec ==
    \/ SetQueue
    \/ ReadColumn

SpecDec == InitDec /\ [][NextDec]_vars

-----------------------------------------------------------------------------
(* The generated program playing: images of a short MIDI file, or images  *)
(* whose columns hold chords                                               *)

PlayMsgs ==
    { NoteOn(60, 80, 0), NoteOn(70, 100, 250000), NoteOn(60, 0, 1500) }

\* columns of several notes, as format_col writes them
ChordCols ==
    { format_col(500, 80, <<60, 64>>), format_col(250, 0, <<60>>),
      format_col(0, 100, <<60, 64, 70>>) }

ChordLists ==
    {<<c>> : c \in ChordCols} \cup {<<c, d>> : c \in ChordCols, d \in ChordCols}

InitPlay ==
    /\ Init!1 /\ Init!2 /\ Init!3
    /\ \/ pc = "encode" /\ images_code = <<>>
       \/ /\ pc = "written"
          /\ images_code \in {ComposeLiterals(<<Header1, Header2>> \o cols) :
                                 cols \in ChordLists}
    /\ Init!6 /\ Init!7 /\ Init!8 /\ Init!9 /\ Init!10 /\ Init!11
    /\ Init!12 /\ Init!13 /\ Init!14

NextPlay ==
    \/ Len(consumed) < MaxMsgs /\ \E msg \in PlayMsgs : EncodeMsg(msg)
    \/ ComposeImages
    \/ SetQueue
    \/ PlayColumn
    \/ PlayNoteOn
    \/ PlayNow
    \/ PlayPause
    \/ PlayEnd

SpecPlay == InitPlay /\ [][NextPlay]_vars

-----------------------------------------------------------------------------
(* The playback driver called directly *)

CallNotes == {60, 70}
CallVelocities == {0, 80, 100}
\* time and play_now of a call
CallTimes == {<<0, TRUE>>, <<250, TRUE>>, <<250, FALSE>>}

\* the calls of note_on made so far
NoteOnCalls == SelectSeq(trace, LAMBDA e : e.op = "note_on")

InitNote ==
    /\ Init!1 /\ Init!2 /\ Init!3
    /\ pc = "driver"
    /\ Init!5 /\ Init!6 /\ Init!7 /\ Init!8 /\ Init!9 /\ Init!10 /\ Init!11
    /\ playing_notes = <<>>
    /\ trace = <<>>
    /\ player = None

NextNote ==
    /\ Len(NoteOnCalls) < MaxCalls
    /\ \E n \in CallNotes, v \in CallVelocities, t \in CallTimes :
          NoteOnCall(n, v, t[1], t[2])

SpecNote == InitNote /\ [][NextNote]_vars

-----------------------------------------------------------------------------
(* Properties *)

\* the note_on messages consumed so far, in order
OnMsgs == SelectSeq(consumed, IsNoteOn)

CeilDiv(a, b) == (a + b - 1) \div b

\* the slices of 512 columns the composer takes of a column list
FrameCount(cols) == CeilDiv(Len(cols), SliceCols)

Range(seq) == {seq[i] : i \in DOMAIN seq}

\* the column the encoder loop appends for a note_on message of the streams
ColumnOfMsg ==
    [m \in {msg \in Msgs \cup Range(LongPattern) :
                IsNoteOn(msg) /\ msg.note < NoteSlots} |->
        format_col(RoundMs(m.time), m.velocity, <<m.note>>)] @@ <<>>

(* ---- C1 ---- *)

\* C1: a column that format_col wrote for a velocity of at most 255 and
\* notes of at most 87 (every delay of the model is below 2^32), placed as
\* data column x of a frame, is read back by get_duration(x),
\* get_velocity(x) and get_notes(x) as the same delay, velocity and notes.
C1_RoundTrip ==
    ( /\ pc = "read"
      /\ decoded.x = Len(image) - 3
      /\ col_in.velocity <= 255
      /\ \A n \in Range(col_in.notes) : n <= 87 )
    => /\ decoded.duration = col_in.time
       /\ decoded.velocity = col_in.velocity
       /\ Range(decoded.notes) = Range(col_in.notes)
       /\ Len(decoded.notes) = Cardinality(Range(col_in.notes))

C1_Witness ==
    /\ pc = "read"
    /\ decoded.x = Len(image) - 3 /\ decoded.x = 1
    /\ col_in = [time |-> 2147483647, velocity |-> 255, notes |-> <<43, 39>>]
    /\ decoded.duration = 2147483647
    /\ decoded.notes = <<39, 43>>

(* ---- C2 ---- *)

\* C2: for the image(s) of k stacked frames the decoder finds exactly k
\* frames, top to bottom; each frame spans the 119 rows above its closing
\* row, its duration band is the 8 rows of the delay digits, its velocity
\* band the 2 rows of the velocity digits and its note band the 109 rows of
\* the note flags.
C2_FrameAgreement ==
    pc = "parsed" =>
        /\ Len(frame_queue) = FrameCount(image)
        /\ \A f \in DOMAIN frame_queue :
              LET fr   == frame_queue[f]
                  base == 120 * ((f - 1) % ImageFrames)
              IN  /\ fr.img_ref = img_queue[((f - 1) \div ImageFrames) + 1]
                  /\ fr.start_y = base /\ fr.stop_y = base + 118
                  /\ fr.duration_start_y = base
                  /\ fr.duration_stop_y = base + 7
                  /\ fr.velocity_start_y = base + 8
                  /\ fr.velocity_stop_y = base + 9
                  /\ fr.note_start_y = base + 10
                  /\ fr.note_stop_y = base + 118

C2_Witness ==
    pc = "parsed" /\ Len(img_queue) = 1 /\ Len(frame_queue) = 4

(* ---- C3 ---- *)

\* C3 as claimed: N data columns make ceil(N / 512) frames and the last
\* frame holds N mod 512 data columns (512 when that is 0).
C3_Chunking512 ==
    LET N == Len(OnMsgs)
        F == FrameCount(image)
    IN  /\ F = CeilDiv(N, 512)
        /\ N > 0 => Len(image) - SliceCols * (F - 1) - 2
                        = (IF N % 512 = 0 THEN 512 ELSE N % 512)

\* C3 amended: N data columns make ceil(N / 510) frames and the last frame
\* holds N mod 510 data columns (510 when that is 0); the next note_on
\* begins a new frame, with new headers, exactly when the last frame holds
\* 510 data columns (512 columns with its headers); the decoder finds as
\* many frames.
C3_Chunking510 ==
    LET N == Len(OnMsgs)
        F == FrameCount(image)
    IN  /\ F = CeilDiv(N, 510)
        /\ N > 0 => Len(image) - SliceCols * (F - 1) - 2
                        = (IF N % 510 = 0 THEN 510 ELSE N % 510)
        /\ (width_count = 0) <=> (N % 510 = 0)
        /\ pc = "parsed" => Len(frame_queue) = F

C3_Witness ==
    pc = "parsed" /\ Len(OnMsgs) = 1021 /\ Len(frame_queue) = 3
        /\ Len(image) = 1027

(* ---- C7 ---- *)

\* C7: in the column list the places 0 and 1 modulo 512 hold header-1 and
\* header-2 and every other place holds the column of the next note_on
\* message, so every slice of 512 columns the composer takes starts with
\* the two headers and continues with data columns only.
C7_HeadersPositional ==
    /\ LET on == OnMsgs
       IN  \A p \in DOMAIN image :
             LET r == (p - 1) % 512
                 f == (p - 1) \div 512
             IN  CASE r = 0 -> image[p] = Header1
                   [] r = 1 -> image[p] = Header2
                   [] OTHER -> image[p] = ColumnOfMsg[on[p - 2 * (f + 1)]]
    /\ \A k \in DOMAIN images_code : \A f \in DOMAIN images_code[k] :
          LET places == images_code[k][f].places
          IN  places # <<>> =>
                /\ Len(places) >= 3
                /\ places[1] = Header1 /\ places[2] = Header2
                /\ \A x \in 3..Len(places) :
                      places[x] \notin {Header1, Header2}

C7_Witness ==
    /\ pc = "written" /\ Len(image) = 515
    /\ images_code[1][2].places = <<Header1, Header2, image[515]>>

(* ---- C8 ---- *)

\* the character a column holds in every one of the rows lo..hi
HoldsIn(col, lo, hi, c) == \A y \in lo..hi : CharAt(col, y) = c

\* C8 as claimed: header-1 is '1' in all 120 rows; header-2 is 8 times
\* '3', 2 times '2', 109 times '1' and one '0'.
C8_Header1AllOnes ==
    \A f \in 0..(FrameCount(image) - 1) :
        LET h1 == image[SliceCols * f + 1]
            h2 == image[SliceCols * f + 2]
        IN  /\ Len(h1) = 120 /\ HoldsIn(h1, 0, 119, "1")
            /\ Len(h2) = 120
            /\ HoldsIn(h2, 0, 7, "3") /\ HoldsIn(h2, 8, 9, "2")
            /\ HoldsIn(h2, 10, 118, "1") /\ HoldsIn(h2, 119, 119, "0")

\* C8 amended: header-1 is '1' in the first 119 rows and '0' in the last
\* row; header-2 is 8 times '3', 2 times '2', 109 times '1' and one '0'.
C8_HeaderContents ==
    \A f \in 0..(FrameCount(image) - 1) :
        LET h1 == image[SliceCols * f + 1]
            h2 == image[SliceCols * f + 2]
        IN  /\ Len(h1) = 120
            /\ HoldsIn(h1, 0, 118, "1") /\ HoldsIn(h1, 119, 119, "0")
            /\ Len(h2) = 120
            /\ HoldsIn(h2, 0, 7, "3") /\ HoldsIn(h2, 8, 9, "2")
            /\ HoldsIn(h2, 10, 118, "1") /\ HoldsIn(h2, 119, 119, "0")

C8_Witness ==
    /\ pc = "written" /\ FrameCount(image) = 3
    /\ images_code[1][3].places[1] = image[1025]
    /\ CharAt(image[1025], 118) = "1" /\ CharAt(image[1025], 119) = "0"
    /\ CharAt(image[1026], 0) = "3"

(* ---- C9 ---- *)

\* the slots whose pitch class is an accidental (C#, D#, F#, G#, A#)
Accidentals == {s \in 0..(NoteSlots - 1) : s % 12 \in {1, 3, 6, 8, 10}}

\* C9: in the column format_col writes, the flag of a slot is 'f' when the
\* slot is a sounding note whose pitch class is an accidental, '1' when it
\* is a sounding natural note and '0' when the note does not sound.
C9_PitchClassFlags ==
    pc \in {"encode", "written", "parsed", "read"} =>
        LET col == image[Len(image)]
            off == Len(col) - (NoteSlots + 1)
        IN  \A slot \in 0..(NoteSlots - 1) :
                CharAt(col, off + slot) =
                    IF slot \in Range(col_in.notes)
                    THEN (IF slot \in Accidentals THEN "f" ELSE "1")
                    ELSE "0"

C9_Witness ==
    /\ pc = "encode"
    /\ col_in.notes = <<21, 22, 108>>
    /\ CharAt(image[Len(image)], 10 + 21) = "1"
    /\ CharAt(image[Len(image)], 10 + 22) = "f"
    /\ CharAt(image[Len(image)], 10 + 108) = "1"

(* ---- C6 ---- *)

\* C6: a velocity above 255 is rejected and no column is emitted for it;
\* every column the encoder emits has a delay field of exactly 8 digits
\* and a velocity field of exactly 2 digits, that is 120 rows with the 109
\* flags and the closing row.
C6_FieldWidths ==
    /\ \A p \in DOMAIN image : Len(image[p]) = 8 + 2 + NoteSlots + 1
    /\ col_in.velocity > 255 => image = <<>>

(* ---- C5 ---- *)

\* C5: for the note of index k in 0..87, whatever its pitch class, the key
\* number note_on computes for get_frequency is k + 1.
C5_KeyNumber ==
    pc = "keyed" => key_number = (note_index - 21) + 1

(* ---- C10 ---- *)

\* C10: the decoder produces no frame whose duration, velocity or note band
\* has an undefined boundary.
C10_NoUndefinedBands ==
    \A f \in DOMAIN frame_queue :
        LET fr == frame_queue[f]
        IN  /\ fr.duration_start_y # Undefined
            /\ fr.duration_stop_y # Undefined
            /\ fr.velocity_start_y # Undefined
            /\ fr.velocity_stop_y # Undefined
            /\ fr.note_start_y # Undefined
            /\ fr.note_stop_y # Undefined

(* ---- C4 ---- *)

\* C4: when the messages consumed are note-on events with a velocity
\* above 0 that follow each other with zero delay, the encoder has emitted
\* ONE data column, whose flags are those of all their notes; so for the
\* events (60 on, 80, delay 0), (64 on, 80, delay 0) there is one column
\* with both flags set.
C4_ChordOneColumn ==
    ( /\ pc = "encode"
      /\ Len(consumed) >= 2
      /\ \A i \in DOMAIN consumed :
            /\ IsNoteOn(consumed[i])
            /\ consumed[i].note < NoteSlots
            /\ consumed[i].velocity > 0
            /\ consumed[i].velocity = consumed[1].velocity
            /\ i > 1 => consumed[i].time = 0 )
    => image = << Header1, Header2,
                  format_col(RoundMs(consumed[1].time), consumed[1].velocity,
                             [i \in DOMAIN consumed |-> consumed[i].note]) >>

(* ---- C11 ---- *)

\* the entries of a collection that have a frequency
Matching(pn, frequency) == {i \in DOMAIN pn : pn[i].frequency = frequency}

\* C11: a call of note_on with velocity 0 removes exactly one entry of the
\* sounding notes, the earliest whose frequency is the note's, and leaves
\* the collection as it is when no entry matches; with a velocity above 0
\* it appends exactly one entry (frequency, velocity) at the end; all other
\* entries and their order stay.
C11_NoteOnEffect ==
    [][ ( /\ Len(trace') > Len(trace)
          /\ trace'[Len(trace) + 1].op = "note_on" )
        => LET ev == trace'[Len(trace) + 1]
               f  == get_frequency(note_num_to_name(ev.note_index - 21))
               m  == Matching(playing_notes, f)
           IN  IF ev.velocity = 0
               THEN IF m = {}
                    THEN playing_notes' = playing_notes
                    ELSE LET i == CHOOSE k \in m : \A j \in m : k <= j
                         IN  /\ Len(playing_notes') = Len(playing_notes) - 1
                             /\ \A j \in 1..(i - 1) :
                                   playing_notes'[j] = playing_notes[j]
                             /\ \A j \in i..(Len(playing_notes) - 1) :
                                   playing_notes'[j] = playing_notes[j + 1]
               ELSE playing_notes' =
                        Append(playing_notes,
                               [frequency |-> f, velocity |-> ev.velocity])
      ]_vars

C11_Witness ==
    /\ pc = "driver"
    /\ Len(trace) = 3
    /\ trace[1] = NoteOnEvent(60, 80, 0, TRUE)
    /\ trace[2] = NoteOnEvent(60, 100, 0, TRUE)
    /\ trace[3] = NoteOnEvent(60, 0, 0, TRUE)
    /\ playing_notes = << [frequency |-> 40, velocity |-> 100] >>

(* ---- C12 ---- *)

\* the columns of the frames f.., as play reads them, in the order of play
RECURSIVE ColumnsFrom(_)
ColumnsFrom(f) ==
    IF f > Len(frame_queue) THEN <<>>
    ELSE [k \in 1..frame_queue[f].frame_len |->
             [duration |-> get_duration(frame_queue[f], k - 1),
              velocity |-> get_velocity(frame_queue[f], k - 1),
              notes    |-> get_notes(frame_queue[f], k - 1)]]
         \o ColumnsFrom(f + 1)

\* the columns of the frames before frame f
RECURSIVE ColumnsBefore(_)
ColumnsBefore(f) ==
    IF f <= 1 THEN 0
    ELSE ColumnsBefore(f - 1) + frame_queue[f - 1].frame_len

\* the sounding notes after note_on for the first k notes of a column
RECURSIVE NotesOn(_, _, _)
NotesOn(pn, col, k) ==
    IF k = 0 THEN pn
    ELSE note_on(NotesOn(pn, col, k - 1), col.notes[k], col.velocity)

\* the batched calls for the first k notes of a column
ExpectedOns(col, k) ==
    [j \in 1..k |-> NoteOnEvent(col.notes[j], col.velocity, 0, FALSE)] \o <<>>

\* one play instruction per sounding entry
ExpectedPlays(pn, ms) ==
    [j \in 1..Len(pn) |->
        [op |-> "playNoteCore", when |-> 0, frequency |-> pn[j].frequency,
         velocity |-> pn[j].velocity, ms |-> ms]] \o <<>>

\* the calls made and the notes sounding when n columns have been played
RECURSIVE Played(_, _)
Played(cols, n) ==
    IF n = 0 THEN [trace |-> <<>>, notes |-> <<>>]
    ELSE LET b   == Played(cols, n - 1)
             col == cols[n]
             pn  == NotesOn(b.notes, col, Len(col.notes))
         IN  [trace |-> b.trace \o ExpectedOns(col, Len(col.notes))
                            \o ExpectedPlays(pn, col.duration)
                            \o << [op |-> "pause", ms |-> col.duration] >>,
              notes |-> pn]

\* C12: the columns are played in increasing order; for each column the
\* player first calls note_on with play_now = false for every decoded note,
\* and nothing is played and nothing pauses meanwhile; then play_now emits
\* one play instruction per sounding entry, with the column's duration;
\* then there is exactly one pause of that duration, before the next
\* column is touched.
C12_PlaybackOrder ==
    pc \in {"notes", "pause", "play", "played"} =>
        LET cols == ColumnsFrom(1)
            n    == IF pc = "played" THEN Len(cols)
                    ELSE ColumnsBefore(player.frame) + player.x
            done == Played(cols, n)
        IN  CASE pc = "notes" ->
                   /\ player.i <= Len(cols[n + 1].notes)
                   /\ trace = done.trace \o ExpectedOns(cols[n + 1], player.i)
                   /\ playing_notes = NotesOn(done.notes, cols[n + 1], player.i)
              [] pc = "pause" ->
                   /\ trace = done.trace
                         \o ExpectedOns(cols[n + 1], Len(cols[n + 1].notes))
                         \o ExpectedPlays(playing_notes, cols[n + 1].duration)
                   /\ playing_notes =
                         NotesOn(done.notes, cols[n + 1], Len(cols[n + 1].notes))
              [] OTHER ->
                   /\ trace = done.trace
                   /\ playing_notes = done.notes

C12_Witness ==
    /\ pc = "played"
    /\ Len(trace) = 8
    /\ trace[1] = NoteOnEvent(60, 80, 0, FALSE)
    /\ trace[2] = NoteOnEvent(64, 80, 0, FALSE)
    /\ trace[3] = PlayNoteCore(40, 80, 500)
    /\ trace[4] = PlayNoteCore(44, 80, 500)
    /\ trace[5] = Pause(500)
    /\ trace[6] = NoteOnEvent(60, 0, 0, FALSE)
    /\ trace[7] = PlayNoteCore(44, 80, 250)
    /\ trace[8] = Pause(250)

(* ---- C13 ---- *)

\* C13: for a note_on message of raw note n in 21..108, the flag row the
\* encoder sets in its column, the index get_notes returns for the column
\* and the index note_on receives from the frame player are the same, n,
\* and 21 is subtracted once on the whole path: the key that sounds is the
\* piano key of index n - 21, whose key number is n - 21 + 1.
C13_NoteIdentity ==
    (pc = "pause" /\ consumed # <<>>) =>
        LET k   == ColumnsBefore(player.frame) + player.x + 1
            n   == OnMsgs[k].note
            col == image[2 + k]
            on  == NoteOnCalls
        IN  n \in 21..108 =>
              /\ \A slot \in 0..(NoteSlots - 1) :
                    (CharAt(col, 10 + slot) # "0") <=> (slot = n)
              /\ player.frame_notes = <<n>>
              /\ Len(on) = k /\ on[k].note_index = n
              /\ OnMsgs[k].velocity > 0 =>
                    playing_notes[Len(playing_notes)].frequency = (n - 21) + 1

(* ---- C14 ---- *)

\* the script has not ended with an exception
Running == pc # "IndexError"

DataPlace(j) == j + 2 * (((j - 1) \div 510) + 1)

\* the delay a column holds in its first 8 digits
DelayField(col) == ParseHex(SubSeq(col, 1, 8), 0)

\* C15: there are as many data columns as note_on messages processed, the
\* delay field of each is the delay of its own note_on message (so the
\* column delays add up to the delays of the note_on messages alone), and
\* a message that is not a note_on changes neither the column list nor
\* the counter.
C15_DelayAccounting ==
    /\ [](Running =>
            LET on == OnMsgs
            IN  /\ Len(image) = Len(on) + 2 * FrameCount(image)
                /\ \A j \in DOMAIN on :
                      /\ image[DataPlace(j)] \notin {Header1, Header2}
                      /\ DelayField(image[DataPlace(j)]) = RoundMs(on[j].time))
    /\ [][ ( /\ Len(consumed') > Len(consumed)
              /\ ~IsNoteOn(consumed'[Len(consumed')]) )
            => image' = image /\ width_count' = width_count
          ]_vars

C15_Witness ==
    /\ pc = "encode"
    /\ Len(consumed) = 767 /\ ~IsNoteOn(consumed[767])
    /\ consumed[767].time = 2500
    /\ Len(OnMsgs) = 511 /\ Len(image) = 515
    /\ image[514] = Header2
    /\ DelayField(image[515]) = 0 /\ DelayField(image[512]) = 2

=============================================================================
